---------------------------- MODULE Spec2Model ----------------------------
(* Soma AI tutor (src/soma_ai_tutor): the model-fallback dispatcher          *)
(* SomaTutor.generate, the progress tracker (load_progress, save_progress,   *)
(* get_difficulty, update_progress), save_note, run_and_track and the /ask   *)
(* web handler.                                                              *)
(*                                                                           *)
(* Strings.  A topic is a sequence of characters over Chars.  A text (model  *)
(* response, error message, returned result) is a sequence of words; a       *)
(* Python substring test is a test for a contiguous run of words, and        *)
(* str.startswith is a prefix test on the word sequence.                     *)
EXTENDS Integers, Sequences, FiniteSets, TLC

VARIABLES
    model_candidates,   \* SomaTutor.model_candidates: the ordered model names
    progressFile,       \* content of data/progress.json
    notes,              \* data/notes: file name (timestamp) -> text
    clock,              \* datetime.now(), in whole seconds
    call,               \* the last completed call: arguments, outcome, return value
    nOps,               \* number of calls made so far (bounds the run)
    pc,                 \* web handler -> position inside ask_tutor
    req,                \* web handler -> topic of its request
    data,               \* web handler -> `data` local of update_progress
    saves               \* normalized topic -> number of completed save_progress calls for it

vars == <<model_candidates, progressFile, notes, clock, call, nOps, pc, req, data, saves>>

-----------------------------------------------------------------------------
(* Bounds of the model                                                       *)

MaxTopicLen == 2        \* longest topic string / raw key
MaxCandidates == 3      \* longest configured candidate list
MaxClock == 2           \* seconds the clock may advance
MaxOps == 3             \* calls per run

-----------------------------------------------------------------------------
(* Characters and topic strings                                              *)

Chars == {"a", "A", " "}

Strings(n) == UNION {[1..k -> Chars] : k \in 0..n}

Topics == Strings(MaxTopicLen)

IsSpace(c) == c = " "

\* str.lower(), per character
LowerChar(c) == IF c = "A" THEN "a" ELSE c

Lower(s) == [i \in 1..Len(s) |-> LowerChar(s[i])]

RECURSIVE LStrip(_)
LStrip(s) == IF s # <<>> /\ IsSpace(Head(s)) THEN LStrip(Tail(s)) ELSE s

RECURSIVE RStrip(_)
RStrip(s) ==
    IF s # <<>> /\ IsSpace(s[Len(s)]) THEN RStrip(SubSeq(s, 1, Len(s) - 1)) ELSE s

\* str.strip()
Strip(s) == RStrip(LStrip(s))

\* str.split(): the maximal runs of non-whitespace characters, in order.
\* `cur` is the word being read, `acc` the words read so far.
RECURSIVE SplitFrom(_, _, _)
SplitFrom(s, cur, acc) ==
    IF s = <<>>
    THEN IF cur = <<>> THEN acc ELSE Append(acc, cur)
    ELSE IF IsSpace(Head(s))
         THEN SplitFrom(Tail(s), <<>>, IF cur = <<>> THEN acc ELSE Append(acc, cur))
         ELSE SplitFrom(Tail(s), Append(cur, Head(s)), acc)

Split(s) == SplitFrom(s, <<>>, <<>>)

\* " ".join(words)
RECURSIVE Join(_)
Join(words) ==
    IF words = <<>> THEN <<>>
    ELSE IF Len(words) = 1 THEN Head(words)
    ELSE Head(words) \o <<" ">> \o Join(Tail(words))

normalize_topic(topic) == Lower(Join(Split(Strip(topic))))

-----------------------------------------------------------------------------
(* The progress file.  kind is                                               *)
(*   "unreadable"  read_text raises (missing file, permissions),             *)
(*   "notjson"     json.loads raises,                                        *)
(*   "list", "number", "string", "null"   JSON whose top level is no object, *)
(*   "object"      a JSON object; entries maps each raw key to its value.    *)
(* A JSON value is [t, v]: t its type and v the integer int() gives where    *)
(* int() accepts it ("int", "float": truncation, "bool", "numstr": a string  *)
(* holding an integer literal) and 0 where int() raises ("badstr", "null",   *)
(* "list", "nan").                                                           *)

EmptyMap == [k \in {} |-> 0]

CoercibleTypes == {"int", "float", "bool", "numstr"}

JInt(n) == [t |-> "int", v |-> n]

\* int(value): [ok |-> FALSE] where it raises
IntOf(value) ==
    IF value.t \in CoercibleTypes
    THEN [ok |-> TRUE, n |-> value.v]
    ELSE [ok |-> FALSE, n |-> 0]

\* cleaned.get(topic_key, 0)
Get(m, k) == IF k \in DOMAIN m THEN m[k] ELSE 0

\* cleaned[topic_key] = n
Put(m, k, n) == [x \in (DOMAIN m) \cup {k} |-> IF x = k THEN n ELSE m[x]]

\* LoadEntry with `cleaned[topic_key] = int(value)`: a later entry replaces
\* the count of an earlier one instead of adding to it.
LoadEntryOverwrite(cleaned, key, value) ==
    LET topic_key == normalize_topic(key)
        coerced == IntOf(value)
    IN  IF topic_key = <<>> THEN cleaned
        ELSE IF ~coerced.ok THEN cleaned
        ELSE Put(cleaned, topic_key, coerced.n)

\* One iteration of the loop of load_progress (lines 59-66).
LoadEntry(cleaned, key, value) ==
    LET topic_key == normalize_topic(key)
        coerced == IntOf(value)
    IN  IF topic_key = <<>> THEN cleaned
        ELSE IF ~coerced.ok THEN cleaned
        ELSE Put(cleaned, topic_key, Get(cleaned, topic_key) + coerced.n)

\* The loop over raw.items(): the entries still to visit are `keys`.
RECURSIVE LoadEntries(_, _, _)
LoadEntries(raw, keys, cleaned) ==
    IF keys = {} THEN cleaned
    ELSE LET key == CHOOSE k \in keys : TRUE
         IN  LoadEntries(raw, keys \ {key}, LoadEntry(cleaned, key, raw[key]))

\* load_progress(): [raised, data].  The try block covers read_text and
\* json.loads only; raw.items() is outside it.
load_progress(file) ==
    IF file.kind \in {"unreadable", "notjson"}
    THEN [raised |-> FALSE, data |-> EmptyMap]
    ELSE IF file.kind = "object"
    THEN [raised |-> FALSE, data |-> LoadEntries(file.entries, DOMAIN file.entries, EmptyMap)]
    ELSE [raised |-> TRUE, data |-> EmptyMap]

\* save_progress(data): json.dumps of a dict of str -> int, written whole.
save_progress(d) ==
    [kind |-> "object", entries |-> [k \in DOMAIN d |-> JInt(d[k])]]

-----------------------------------------------------------------------------
(* Texts and the external service                                            *)

\* The prefix of "Gemini API Error: ..." (lines 94, 144, 145)
Sentinel == <<"Gemini", "API", "Error:">>

\* " all candidate models failed. Last error: " (line 145)
AllFailed == <<"all", "candidate", "models", "failed.", "Last", "error:">>

\* str.startswith
StartsWith(text, prefix) ==
    /\ Len(text) >= Len(prefix)
    /\ SubSeq(text, 1, Len(prefix)) = prefix

\* is_api_error_text with `text == "Gemini API Error:"` for startswith
IsErrorTextExact(text) == text = Sentinel

is_api_error_text(text) == StartsWith(text, Sentinel)

\* str.lower() of one word of an error message
LowerWord(w) ==
    CASE w = "NOT_FOUND" -> "not_found"
      [] w = "Not" -> "not"
      [] w = "Found" -> "found"
      [] w = "DEADLINE_EXCEEDED" -> "deadline_exceeded"
      [] OTHER -> w

LowerText(text) == [i \in 1..Len(text) |-> LowerWord(text[i])]

\* `pattern in text`
Contains(text, pattern) ==
    \E i \in 1..(Len(text) - Len(pattern) + 1) :
        SubSeq(text, i, i + Len(pattern) - 1) = pattern

is_not_found(err) ==
    LET lower == LowerText(err)
    IN  /\ Contains(lower, <<"404">>)
        /\ \/ Contains(lower, <<"not_found">>)
           \/ Contains(lower, <<"not", "found">>)

\* Error messages the service call may raise with
ErrNotFoundA == <<"404", "NOT_FOUND">>
ErrNotFoundB == <<"models/x", "404", "Not", "Found">>
ErrTimeout == <<"504", "DEADLINE_EXCEEDED">>
ErrBare404 == <<"404">>

Errors == {ErrNotFoundA, ErrNotFoundB, ErrTimeout, ErrBare404}

\* A response object: text is response.text (<<>> when None or empty),
\* hasParts whether candidates[0].content.parts[0].text can be read, partText
\* what it holds, repr is str(response).
Response(text, hasParts, partText) ==
    [text |-> text, hasParts |-> hasParts, partText |-> partText,
     repr |-> <<"<response>">>]

NoResponse == Response(<<>>, FALSE, <<>>)

Responses ==
    { Response(<<"answer">>, TRUE, <<"part">>),
      Response(<<>>, TRUE, <<"part">>),
      NoResponse,
      Response(Sentinel \o <<"quoted">>, FALSE, <<>>) }

extract_text(response) ==
    IF response.text # <<>> THEN response.text
    ELSE IF response.hasParts THEN response.partText
    ELSE response.repr

\* What client.models.generate_content does for one candidate: it returns a
\* response or raises with an error text.
Outcomes ==
    {[ok |-> TRUE, response |-> r, err |-> <<>>] : r \in Responses}
    \cup {[ok |-> FALSE, response |-> NoResponse, err |-> e] : e \in Errors}

ModelNames == {"gemini-2.5-flash-lite", "gemini-2.0-flash-lite"}

CandidateLists == UNION {[1..n -> ModelNames] : n \in 1..MaxCandidates}

\* GenerateFrom returning response.text itself, without _extract_text
RECURSIVE GenerateFromTextOnly(_, _, _, _, _)
GenerateFromTextOnly(candidates, out, i, last_error, attempted) ==
    IF i > Len(candidates)
    THEN [result |-> Sentinel \o AllFailed \o last_error, attempted |-> attempted]
    ELSE LET tried == Append(attempted, i)
         IN  IF out[i].ok
             THEN [result |-> out[i].response.text, attempted |-> tried]
             ELSE LET error_text == out[i].err
                  IN  IF is_not_found(error_text)
                      THEN GenerateFromTextOnly(candidates, out, i + 1,
                                                <<candidates[i], ":">> \o error_text, tried)
                      ELSE [result |-> Sentinel \o error_text, attempted |-> tried]

\* GenerateFrom going on to the next candidate after any error
RECURSIVE GenerateFromRetryAny(_, _, _, _, _)
GenerateFromRetryAny(candidates, out, i, last_error, attempted) ==
    IF i > Len(candidates)
    THEN [result |-> Sentinel \o AllFailed \o last_error, attempted |-> attempted]
    ELSE LET tried == Append(attempted, i)
         IN  IF out[i].ok
             THEN [result |-> extract_text(out[i].response), attempted |-> tried]
             ELSE GenerateFromRetryAny(candidates, out, i + 1,
                                       <<candidates[i], ":">> \o out[i].err, tried)

\* GenerateFrom keeping the first error as last_error
RECURSIVE GenerateFromFirstError(_, _, _, _, _)
GenerateFromFirstError(candidates, out, i, last_error, attempted) ==
    IF i > Len(candidates)
    THEN [result |-> Sentinel \o AllFailed \o last_error, attempted |-> attempted]
    ELSE LET tried == Append(attempted, i)
         IN  IF out[i].ok
             THEN [result |-> extract_text(out[i].response), attempted |-> tried]
             ELSE LET error_text == out[i].err
                  IN  IF is_not_found(error_text)
                      THEN GenerateFromFirstError(
                               candidates, out, i + 1,
                               IF last_error = <<>>
                               THEN <<candidates[i], ":">> \o error_text
                               ELSE last_error,
                               tried)
                      ELSE [result |-> Sentinel \o error_text, attempted |-> tried]

\* The for loop of generate from candidate i on: last_error is the loop's
\* variable, attempted the candidates called so far.
RECURSIVE GenerateFrom(_, _, _, _, _)
GenerateFrom(candidates, out, i, last_error, attempted) ==
    IF i > Len(candidates)
    THEN [result |-> Sentinel \o AllFailed \o last_error, attempted |-> attempted]
    ELSE LET tried == Append(attempted, i)
         IN  IF out[i].ok
             THEN [result |-> extract_text(out[i].response), attempted |-> tried]
             ELSE LET error_text == out[i].err
                  IN  IF is_not_found(error_text)
                      THEN GenerateFrom(candidates, out, i + 1,
                                        <<candidates[i], ":">> \o error_text, tried)
                      ELSE [result |-> Sentinel \o error_text, attempted |-> tried]

generate(candidates, out) == GenerateFrom(candidates, out, 1, <<>>, <<>>)

-----------------------------------------------------------------------------
(* The progress tracker and the notes store                                  *)

\* get_difficulty with `>=` for `>` at both thresholds
GetDifficultyInclusive(file, topic) ==
    LET loaded == load_progress(file)
        score == Get(loaded.data, normalize_topic(topic))
    IN  IF loaded.raised THEN [raised |-> TRUE, result |-> <<>>]
        ELSE [raised |-> FALSE,
              result |-> IF score >= 5 THEN <<"easy">>
                         ELSE IF score >= 2 THEN <<"medium">>
                         ELSE <<"hard">>]

\* get_difficulty(topic): [raised, result]; an exception of load_progress
\* is not caught.
get_difficulty(file, topic) ==
    LET loaded == load_progress(file)
        score == Get(loaded.data, normalize_topic(topic))
    IN  IF loaded.raised THEN [raised |-> TRUE, result |-> <<>>]
        ELSE [raised |-> FALSE,
              result |-> IF score > 5 THEN <<"easy">>
                         ELSE IF score > 2 THEN <<"medium">>
                         ELSE <<"hard">>]

\* Increment without reading the stored count: `data[topic_key] = 1`
IncrementFromZero(d, topic_key) == Put(d, topic_key, 1)

\* data[topic_key] = data.get(topic_key, 0) + 1   (line 209)
Increment(d, topic_key) == Put(d, topic_key, Get(d, topic_key) + 1)

\* update_progress without the call of save_progress
UpdateProgressNoSave(file, topic) ==
    LET topic_key == normalize_topic(topic)
        loaded == load_progress(file)
    IN  IF topic_key = <<>> THEN [raised |-> FALSE, file |-> file]
        ELSE [raised |-> loaded.raised, file |-> file]

\* update_progress(topic): [raised, file], file the progress file afterwards.
update_progress(file, topic) ==
    LET topic_key == normalize_topic(topic)
        loaded == load_progress(file)
    IN  IF topic_key = <<>> THEN [raised |-> FALSE, file |-> file]
        ELSE IF loaded.raised THEN [raised |-> TRUE, file |-> file]
        ELSE [raised |-> FALSE,
              file |-> save_progress(Increment(loaded.data, topic_key))]

\* save_note that does not replace a note of the same second
SaveNoteKeepExisting(store, now, text) ==
    [store |-> IF now \in DOMAIN store THEN store ELSE Put(store, now, text),
     path |-> now]

\* save_note(text): the file is named by the clock's second; write_text
\* creates it or replaces its content.  [store, path].
save_note(store, now, text) ==
    [store |-> Put(store, now, text), path |-> now]

\* `None` as a note path
None == -1

-----------------------------------------------------------------------------
(* State                                                                     *)

NoCall ==
    [op |-> "none", topic |-> <<>>, outcomes |-> <<>>, attempted |-> <<>>,
     fnResult |-> <<>>, result |-> <<>>, note |-> None, raised |-> FALSE,
     loaded |-> EmptyMap]

Handlers == {1, 2}

NonObjectKinds == {"list", "number", "string", "null"}

File(kind) == [kind |-> kind, entries |-> EmptyMap]

Object(entries) == [kind |-> "object", entries |-> entries]

\* JSON values of a stored entry
JValues ==
    { JInt(2), [t |-> "numstr", v |-> 3], [t |-> "float", v |-> 1],
      [t |-> "badstr", v |-> 0] }

\* Progress files the tutor may find when it starts
StartFiles ==
    { File("unreadable"), File("notjson"), File("list"),
      Object(EmptyMap),
      Object(<<"a">> :> JInt(2)),
      Object(<<"a">> :> JInt(5)),
      Object(<<" ", "A">> :> [t |-> "numstr", v |-> 3]),
      Object(<<"a">> :> JInt(2) @@ <<"A">> :> [t |-> "numstr", v |-> 3]) }

\* The default configuration (DEFAULT_MODELS)
DEFAULT_MODELS ==
    <<"gemini-2.5-flash-lite", "gemini-2.0-flash-lite", "gemini-2.0-flash">>

\* What the operation passed to run_and_track may return: what generate
\* returns, with one candidate, for a plain answer, a response with no text,
\* an answer that quotes the sentinel, a timeout and a model that is not found.
FnOutcomes ==
    { o \in Outcomes :
        \/ o.ok /\ (o.response.text # <<>> \/ ~o.response.hasParts)
        \/ ~o.ok /\ o.err \in {ErrTimeout, ErrNotFoundA} }

FnResults == {generate(<<DEFAULT_MODELS[1]>>, <<o>>).result : o \in FnOutcomes}

\* Topics given to the tutor's operations
TopicArgs == {<<>>, <<" ">>, <<"a">>, <<" ", "A">>, <<"a", "a">>}

InitCommon ==
    /\ notes = EmptyMap
    /\ clock = 0
    /\ call = NoCall
    /\ nOps = 0
    /\ pc = [h \in Handlers |-> "idle"]
    /\ req = [h \in Handlers |-> <<>>]
    /\ data = [h \in Handlers |-> EmptyMap]
    /\ saves = EmptyMap

Init ==
    /\ model_candidates = DEFAULT_MODELS
    /\ progressFile \in StartFiles
    /\ InitCommon

webVars == <<pc, req, data, saves>>

-----------------------------------------------------------------------------
(* The tutor's operations, single-threaded                                   *)

Tick ==
    /\ clock < MaxClock
    /\ clock' = clock + 1
    /\ call' = [NoCall EXCEPT !.op = "tick"]
    /\ UNCHANGED <<model_candidates, progressFile, notes, nOps, webVars>>

GetDifficulty(topic) ==
    /\ nOps < MaxOps
    /\ nOps' = nOps + 1
    /\ LET got == get_difficulty(progressFile, topic)
       IN  call' = [NoCall EXCEPT !.op = "get_difficulty", !.topic = topic,
                                  !.result = got.result, !.raised = got.raised]
    /\ UNCHANGED <<model_candidates, progressFile, notes, clock, webVars>>

UpdateProgress(topic) ==
    /\ nOps < MaxOps
    /\ nOps' = nOps + 1
    /\ LET upd == update_progress(progressFile, topic)
       IN  /\ progressFile' = upd.file
           /\ call' = [NoCall EXCEPT !.op = "update_progress", !.topic = topic,
                                     !.raised = upd.raised]
    /\ UNCHANGED <<model_candidates, notes, clock, webVars>>

\* run_and_track(topic, fn), fn() returning r
RunAndTrack(topic, r) ==
    /\ nOps < MaxOps
    /\ nOps' = nOps + 1
    /\ LET upd == update_progress(progressFile, topic)
           saved == save_note(notes, clock, r)
           this == [NoCall EXCEPT !.op = "run_and_track", !.topic = topic,
                                  !.fnResult = r]
       IN  IF is_api_error_text(r)
           THEN /\ call' = [this EXCEPT !.result = r, !.note = None]
                /\ UNCHANGED <<progressFile, notes>>
           ELSE IF upd.raised
           THEN /\ call' = [this EXCEPT !.raised = TRUE]
                /\ UNCHANGED <<progressFile, notes>>
           ELSE /\ progressFile' = upd.file
                /\ notes' = saved.store
                /\ call' = [this EXCEPT !.result = r, !.note = saved.path]
    /\ UNCHANGED <<model_candidates, clock, webVars>>

Next ==
    \/ Tick
    \/ \E topic \in TopicArgs : GetDifficulty(topic)
    \/ \E topic \in TopicArgs : UpdateProgress(topic)
    \/ \E topic \in TopicArgs, r \in FnResults : RunAndTrack(topic, r)

Spec == Init /\ [][Next]_vars

-----------------------------------------------------------------------------
(* The dispatcher alone: the service answers each candidate as it likes.     *)
(* generate keeps nothing from one call to the next, so a run holds one call *)
(* from each configuration.                                                  *)

InitGen ==
    /\ model_candidates \in CandidateLists
    /\ progressFile = Object(EmptyMap)
    /\ InitCommon

Generate(out) ==
    /\ nOps = 0
    /\ nOps' = nOps + 1
    /\ LET got == generate(model_candidates, out)
       IN  call' = [NoCall EXCEPT !.op = "generate", !.outcomes = out,
                                  !.attempted = got.attempted,
                                  !.result = got.result]
    /\ UNCHANGED <<model_candidates, progressFile, notes, clock, webVars>>

NextGen == \E out \in [1..Len(model_candidates) -> Outcomes] : Generate(out)

SpecGen == InitGen /\ [][NextGen]_vars

-----------------------------------------------------------------------------
(* load_progress alone, over every content of the progress file              *)

MaxEntries == 2         \* most entries of a stored JSON object

\* The sets of at most n raw keys
KeySets(n) == UNION {{{q[i] : i \in 1..k} : q \in [1..k -> Topics]} : k \in 0..n}

\* Every content of the progress file with at most n entries
Files(n) ==
    {File(k) : k \in NonObjectKinds \cup {"unreadable", "notjson"}}
    \cup {Object(e) : e \in UNION {[S -> JValues] : S \in KeySets(n)}}

InitLoad ==
    /\ model_candidates = DEFAULT_MODELS
    /\ progressFile \in Files(MaxEntries)
    /\ InitCommon

LoadProgress ==
    /\ LET loaded == load_progress(progressFile)
       IN  call' = [NoCall EXCEPT !.op = "load_progress",
                                  !.raised = loaded.raised,
                                  !.loaded = loaded.data]
    /\ UNCHANGED <<model_candidates, progressFile, notes, clock, nOps, webVars>>

NextLoad == LoadProgress

SpecLoad == InitLoad /\ [][NextLoad]_vars

-----------------------------------------------------------------------------
(* The web application: two /ask requests handled at the same time.  Each   *)
(* handler runs ask_tutor; update_progress reads the file (UpdLoad) and      *)
(* writes it (UpdSave) in two steps with no lock in between.                 *)

Questions == {<<>>, <<"why">>}

InitWeb ==
    /\ model_candidates = DEFAULT_MODELS
    /\ progressFile = Object(EmptyMap)
    /\ InitCommon

\* POST /ask up to the call of update_progress (web_app.py lines 25-34):
\* r is what generate returns inside tutor.ask.
Post(h, formTopic, formQuestion, r) ==
    /\ pc[h] = "idle"
    /\ nOps < MaxOps
    /\ nOps' = nOps + 1
    /\ LET topic == Strip(formTopic)
           question == Strip(formQuestion)
           got == get_difficulty(progressFile, topic)
           this == [NoCall EXCEPT !.op = "ask_tutor", !.topic = topic]
       IN  IF topic = <<>> \/ question = <<>>
           THEN /\ call' = this
                /\ UNCHANGED <<pc, req>>
           ELSE IF got.raised
           THEN /\ call' = [this EXCEPT !.raised = TRUE]
                /\ UNCHANGED <<pc, req>>
           ELSE /\ call' = [this EXCEPT !.result = r]
                /\ IF is_api_error_text(r)
                   THEN UNCHANGED <<pc, req>>
                   ELSE /\ pc' = [pc EXCEPT ![h] = "update"]
                        /\ req' = [req EXCEPT ![h] = topic]
    /\ UNCHANGED <<model_candidates, progressFile, notes, clock, data, saves>>

\* update_progress, lines 205-208
UpdLoad(h) ==
    /\ pc[h] = "update"
    /\ LET topic_key == normalize_topic(req[h])
           loaded == load_progress(progressFile)
       IN  IF topic_key = <<>> \/ loaded.raised
           THEN /\ pc' = [pc EXCEPT ![h] = "idle"]
                /\ UNCHANGED data
           ELSE /\ pc' = [pc EXCEPT ![h] = "loaded"]
                /\ data' = [data EXCEPT ![h] = loaded.data]
    /\ UNCHANGED <<model_candidates, progressFile, notes, clock, call, nOps, req, saves>>

\* update_progress, lines 209-210
UpdSave(h) ==
    /\ pc[h] = "loaded"
    /\ LET topic_key == normalize_topic(req[h])
       IN  /\ progressFile' = save_progress(Increment(data[h], topic_key))
           /\ saves' = Put(saves, topic_key, Get(saves, topic_key) + 1)
    /\ pc' = [pc EXCEPT ![h] = "idle"]
    /\ UNCHANGED <<model_candidates, notes, clock, call, nOps, req, data>>

NextWeb ==
    \/ \E h \in Handlers, t \in TopicArgs, q \in Questions, r \in FnResults :
           Post(h, t, q, r)
    \/ \E h \in Handlers : UpdLoad(h)
    \/ \E h \in Handlers : UpdSave(h)

SpecWeb == InitWeb /\ [][NextWeb]_vars

-----------------------------------------------------------------------------
(* Properties of the dispatcher (under SpecGen)                              *)

\* <<1, 2, ..., n>>: the candidates at positions 1 to n, in list order
FirstN(n) == [i \in 1..n |-> i]

\* Candidate j's call raised with an error classified as not-found
FailsNotFound(j) == ~call.outcomes[j].ok /\ is_not_found(call.outcomes[j].err)

\* Every candidate before position k failed with a not-found error
AllBeforeNotFound(k) == \A j \in 1..(k - 1) : FailsNotFound(j)

\* C1: generate tries the candidates in list order, each at most once, and
\* stops at the first success: when every candidate before position k fails
\* with a not-found error and candidate k succeeds, the result is the text
\* extracted from candidate k's response and exactly candidates 1..k were
\* attempted.
C1_FirstSuccessWins ==
    call.op = "generate" =>
        /\ \E n \in 1..Len(model_candidates) : call.attempted = FirstN(n)
        /\ \A k \in 1..Len(model_candidates) :
               (AllBeforeNotFound(k) /\ call.outcomes[k].ok) =>
                   /\ call.result = extract_text(call.outcomes[k].response)
                   /\ call.attempted = FirstN(k)

\* A list of three candidates where the first is not found, the second
\* answers (with a response that has no direct text) and the third is left alone.
C1_Witness ==
    /\ call.op = "generate"
    /\ Len(model_candidates) = 3
    /\ FailsNotFound(1)
    /\ call.outcomes[2].ok
    /\ call.outcomes[2].response.text = <<>>
    /\ call.outcomes[3].ok
    /\ call.attempted = <<1, 2>>
    /\ call.result = <<"part">>

\* C2: the first candidate that fails with an error not classified as
\* not-found aborts the chain: the result is the sentinel followed by that
\* candidate's error text and no later candidate is attempted.
C2_OtherErrorAborts ==
    call.op = "generate" =>
        \A k \in 1..Len(model_candidates) :
            ( /\ AllBeforeNotFound(k)
              /\ ~call.outcomes[k].ok
              /\ ~is_not_found(call.outcomes[k].err) ) =>
                /\ call.result = <<"Gemini", "API", "Error:">> \o call.outcomes[k].err
                /\ call.attempted = FirstN(k)

\* The first candidate times out while the second would have answered.
C2_Witness ==
    /\ call.op = "generate"
    /\ Len(model_candidates) >= 2
    /\ ~call.outcomes[1].ok
    /\ call.outcomes[1].err = ErrTimeout
    /\ call.outcomes[2].ok
    /\ call.attempted = <<1>>
    /\ call.result = <<"Gemini", "API", "Error:", "504", "DEADLINE_EXCEEDED">>

\* C7: when every candidate fails with a not-found error, every candidate is
\* attempted once in order and the result is the sentinel, the note that all
\* candidates failed, and the last candidate's name and error text; the
\* error text of an earlier candidate that differs from it is not in the result.
C7_AllNotFound ==
    LET n == Len(model_candidates)
    IN  (call.op = "generate" /\ AllBeforeNotFound(n + 1)) =>
            /\ call.attempted = FirstN(n)
            /\ call.result =
                   <<"Gemini", "API", "Error:">>
                   \o <<"all", "candidate", "models", "failed.", "Last", "error:">>
                   \o <<model_candidates[n], ":">> \o call.outcomes[n].err
            /\ \A j \in 1..(n - 1) :
                   call.outcomes[j].err # call.outcomes[n].err =>
                       ~Contains(call.result, call.outcomes[j].err)

\* Three candidates, all not found, the first and the last with different
\* error texts.
C7_Witness ==
    /\ call.op = "generate"
    /\ Len(model_candidates) = 3
    /\ AllBeforeNotFound(4)
    /\ call.outcomes[1].err = ErrNotFoundA
    /\ call.outcomes[3].err = ErrNotFoundB
    /\ call.attempted = <<1, 2, 3>>
    /\ Contains(call.result, ErrNotFoundB)

-----------------------------------------------------------------------------
(* Properties of the tracker and of run_and_track (under Spec)               *)

\* The text begins with "Gemini API Error:": a dispatcher failure result
BeginsWithSentinel(text) ==
    /\ Len(text) >= 3
    /\ text[1] = "Gemini" /\ text[2] = "API" /\ text[3] = "Error:"

\* The stored count of a key in a progress file, as a fresh load shows it
StoredCount(file, key) == Get(load_progress(file).data, key)

\* The map m with the count of key raised by one and nothing else changed
PlusOne(m, key) ==
    [k \in (DOMAIN m) \cup {key} |->
        IF k = key THEN (IF key \in DOMAIN m THEN m[key] ELSE 0) + 1 ELSE m[k]]

\* C3: when fn returns a dispatcher failure, run_and_track returns that
\* string unchanged with no note path, and the progress file and the notes
\* store are what they were.
C3_FailureLeavesState ==
    [][ (call'.op = "run_and_track" /\ BeginsWithSentinel(call'.fnResult)) =>
            /\ ~call'.raised
            /\ call'.result = call'.fnResult
            /\ call'.note = None
            /\ progressFile' = progressFile
            /\ notes' = notes ]_vars

\* A failed run_and_track after progress and a note were already stored.
C3_Witness ==
    /\ call.op = "run_and_track"
    /\ BeginsWithSentinel(call.fnResult)
    /\ call.result = call.fnResult
    /\ call.note = None
    /\ DOMAIN notes # {}
    /\ StoredCount(progressFile, <<"a">>) > 0

\* C4 as stated: whenever the operation succeeds, the stored count of the
\* topic grows by exactly 1 and exactly one new note file appears, for every
\* topic and every sequence of calls.
C4_AlwaysOneMore ==
    [][ (call'.op = "run_and_track" /\ ~BeginsWithSentinel(call'.fnResult)) =>
            LET key == normalize_topic(call'.topic)
            IN  /\ StoredCount(progressFile', key) = StoredCount(progressFile, key) + 1
                /\ Cardinality(DOMAIN notes') = Cardinality(DOMAIN notes) + 1 ]_vars

\* C4 amended: when the operation succeeds, then (a) if the topic normalizes
\* to a non-empty key and the progress file holds JSON that is no object,
\* load_progress raises out of run_and_track and nothing is written;
\* otherwise (b) the call returns the result and the note path of the
\* current second, the stored count of a non-empty key grows by exactly 1
\* with every other key unchanged while an empty key leaves the progress file
\* untouched, and the result is written to the note of the current second,
\* which is a new file only if no note was saved in that second.
C4_OneMoreUnlessEmptyOrSameSecond ==
    [][ (call'.op = "run_and_track" /\ ~BeginsWithSentinel(call'.fnResult)) =>
            LET key == normalize_topic(call'.topic)
                before == load_progress(progressFile)
                after == load_progress(progressFile')
            IN  IF key # <<>> /\ before.raised
                THEN /\ call'.raised
                     /\ progressFile' = progressFile
                     /\ notes' = notes
                ELSE /\ ~call'.raised
                     /\ call'.result = call'.fnResult
                     /\ call'.note = clock
                     /\ IF key = <<>>
                        THEN progressFile' = progressFile
                        ELSE /\ ~after.raised
                             /\ after.data = PlusOne(before.data, key)
                     /\ DOMAIN notes' = (DOMAIN notes) \cup {clock}
                     /\ notes'[clock] = call'.fnResult
                     /\ \A t \in DOMAIN notes : t # clock => notes'[t] = notes[t]
                     /\ Cardinality(DOMAIN notes') =
                            Cardinality(DOMAIN notes)
                            + (IF clock \in DOMAIN notes THEN 0 ELSE 1) ]_vars

\* Two successful run_and_track calls in two different seconds: two notes,
\* and the count of the topic's key has grown.
C4_Witness ==
    /\ call.op = "run_and_track"
    /\ ~BeginsWithSentinel(call.fnResult)
    /\ ~call.raised
    /\ normalize_topic(call.topic) # <<>>
    /\ call.note = clock
    /\ Cardinality(DOMAIN notes) = 2
    /\ StoredCount(progressFile, normalize_topic(call.topic)) >= 2

\* C5: in a single-threaded run every update_progress call with a topic that
\* normalizes to a non-empty key, on a store that load_progress reads, leaves
\* a file whose fresh load shows that key's count one higher and every other
\* key as before; N calls for one key therefore add exactly N.
C5_UpdateAddsOne ==
    [][ ( /\ call'.op = "update_progress"
          /\ normalize_topic(call'.topic) # <<>>
          /\ ~load_progress(progressFile).raised ) =>
            /\ ~call'.raised
            /\ ~load_progress(progressFile').raised
            /\ load_progress(progressFile').data =
                   PlusOne(load_progress(progressFile).data,
                           normalize_topic(call'.topic)) ]_vars

\* Two calls, with the topics "a" and " A", took the key "a" from 5 to 7.
C5_Witness ==
    /\ call.op = "update_progress"
    /\ call.topic = <<" ", "A">>
    /\ nOps = 2
    /\ progressFile = Object(<<"a">> :> JInt(7))

\* The tier the stored count stands for
TierOf(count, tier) ==
    /\ count \in 0..2 => tier = <<"hard">>
    /\ count \in 3..5 => tier = <<"medium">>
    /\ count >= 6 => tier = <<"easy">>

\* C6: get_difficulty returns the tier of the stored count of the normalized
\* topic (0 when absent): hard for 0..2, medium for 3..5, easy from 6 on;
\* and it leaves the progress file as it was.
C6_DifficultyTiers ==
    [][ call'.op = "get_difficulty" =>
            /\ progressFile' = progressFile
            /\ notes' = notes
            /\ ~load_progress(progressFile).raised =>
                   /\ ~call'.raised
                   /\ TierOf(StoredCount(progressFile, normalize_topic(call'.topic)),
                             call'.result) ]_vars

\* get_difficulty at the boundary 6, asked with a topic in raw form.
C6_Witness ==
    /\ call.op = "get_difficulty"
    /\ call.topic = <<" ", "A">>
    /\ StoredCount(progressFile, <<"a">>) = 6
    /\ call.result = <<"easy">>

-----------------------------------------------------------------------------
(* Properties of load_progress (under SpecLoad)                              *)

\* C8: for every content of the progress file that is no JSON object
\* (unreadable, not JSON, or JSON whose top level is a list, a number, a
\* string or null) load_progress returns the empty map and does not raise.
C8_MalformedIsEmpty ==
    (call.op = "load_progress" /\ progressFile.kind # "object") =>
        /\ ~call.raised
        /\ call.loaded = EmptyMap

\* The raw entries load_progress keeps: the key does not normalize to the
\* empty string and int() accepts the value
ValidKeys(raw) ==
    {r \in DOMAIN raw :
        /\ normalize_topic(r) # <<>>
        /\ raw[r].t \in {"int", "float", "bool", "numstr"}}

\* The sum of the integer values of the raw entries with keys in rs
RECURSIVE SumValues(_, _)
SumValues(raw, rs) ==
    IF rs = {} THEN 0
    ELSE LET r == CHOOSE x \in rs : TRUE
         IN  raw[r].v + SumValues(raw, rs \ {r})

\* C9: loading a JSON object drops exactly the entries whose key normalizes
\* to the empty string or whose value int() rejects; the keys of the loaded
\* map are the normalized keys of the other entries, each in normalized
\* form, and each count is the sum of the values of the entries that
\* normalize to it.
C9_LoadSumsValidEntries ==
    (call.op = "load_progress" /\ progressFile.kind = "object") =>
        LET raw == progressFile.entries
            valid == ValidKeys(raw)
        IN  /\ ~call.raised
            /\ DOMAIN call.loaded = {normalize_topic(r) : r \in valid}
            /\ \A k \in DOMAIN call.loaded :
                   /\ normalize_topic(k) = k
                   /\ call.loaded[k] =
                          SumValues(raw, {r \in valid : normalize_topic(r) = k})

\* Two raw keys that normalize to the same key, both valid: one loaded
\* entry holding the sum of the two values.
C9_Witness ==
    /\ call.op = "load_progress"
    /\ progressFile.kind = "object"
    /\ Cardinality(DOMAIN progressFile.entries) = 2
    /\ ValidKeys(progressFile.entries) = DOMAIN progressFile.entries
    /\ DOMAIN call.loaded = {<<"a">>}
    /\ call.loaded[<<"a">>] = 5

-----------------------------------------------------------------------------
(* Properties of the web application (under SpecWeb)                         *)

\* C10: update_progress is an unlocked load-modify-save, the last writer
\* wins: the file a handler saves is what that handler loaded with its own
\* key one higher, whatever was saved in between; so an increment saved
\* between a handler's load and its save is lost.
C10_LastWriterWins ==
    [][ \A h \in Handlers :
            (pc[h] = "loaded" /\ pc'[h] = "idle") =>
                /\ ~load_progress(progressFile').raised
                /\ load_progress(progressFile').data =
                       PlusOne(data[h], normalize_topic(req[h])) ]_vars

\* Two requests on the same topic have both saved their increment and the
\* stored count, 0 at the start, is 1.
C10_Witness ==
    /\ \A h \in Handlers : pc[h] = "idle"
    /\ \E k \in DOMAIN saves :
           /\ saves[k] = 2
           /\ StoredCount(progressFile, k) = 1

=============================================================================
